---- MODULE Spec2Model ----
(***************************************************************************)
(* Billing and token-ledger core of ranjannkumar/liquid: the Stripe        *)
(* webhook dispatcher (handle_stripe_webhook), the consume_tokens RPC      *)
(* behind token_service, and the run_subscription_maintenance cron worker, *)
(* over one shared Postgres store.                                         *)
(*                                                                         *)
(* The store is the record db, one field per table.  Every supabase-js     *)
(* call of the edge functions is its own autocommitted statement; the only *)
(* multi-statement transaction is the body of the plpgsql function         *)
(* consume_tokens, which runs at Postgres' default READ COMMITTED level.   *)
(***************************************************************************)
EXTENDS Integers, Sequences, FiniteSets, TLC

\* ------------------------------------------------------------------ bounds
MaxBatches == 3      \* rows of user_token_batches the model lets exist
MaxNow     == 3      \* last tick of the clock
NumCallers == 2      \* concurrent token_service requests
MaxConsume == 2      \* largest amount asked of consume_tokens
NumWorkers == 2      \* concurrent invocations of the webhook function
NumRunners == 2      \* concurrent invocations of the maintenance function
MonthLen   == 2      \* ticks per calendar month
MaxDeliveries == 3  \* requests to the edge functions in one behaviour

NULL == "null"        \* SQL NULL / JS null in a text column or field
NullTime == 0 - 1     \* SQL NULL in a timestamp column
NullId == 0           \* SQL NULL in a uuid column that refers to a batch or purchase

Users      == {"u1", "u2"}
Callers    == 1..NumCallers
Workers    == 1..NumWorkers
Runners    == 1..NumRunners

Min(a, b) == IF a <= b THEN a ELSE b

\* ------------------------------------------------------------------ time
\* Date arithmetic of the handlers, on a clock of ticks.
MonthOf(t)   == t \div MonthLen                 \* (getFullYear, getMonth) of a date
AddMonth(t)  == t + MonthLen                    \* setMonth(getMonth() + 1)
AddDay(t)    == t + 1                           \* setDate(getDate() + 1)
AddYear(t)   == t + 12 * MonthLen               \* setFullYear(getFullYear() + 1)
Add60Days(t) == t + 2 * MonthLen                \* setDate(getDate() + 60)
Add365Days(t) == t + 12 * MonthLen              \* setDate(getDate() + 365)

addExpiry(from, cycle) ==
  IF cycle = "daily" THEN AddDay(from)
  ELSE IF cycle = "monthly" THEN AddMonth(from)
  ELSE AddYear(from)

\* dbCycleFromStripe without its branch for "year".
dbCycleWithoutYear(i) ==
  IF i = "day" THEN "daily" ELSE "monthly"

dbCycleFromStripe(i) ==
  IF i = "day" THEN "daily" ELSE IF i = "year" THEN "yearly" ELSE "monthly"

\* ------------------------------------------------------------------ catalog
\* subscription_prices, keyed by price_id (UNIQUE).  monthly_refill_tokens is
\* nullable; its readers (?? 0, || fallback) treat NULL and 0 alike, so NULL is 0.
PriceIds == {"price_basic_m", "price_std_m", "price_prem_y"}
subscription_prices ==
  [p \in PriceIds |->
     CASE p = "price_basic_m" ->
            [plan_option |-> "basic", plan_type |-> "monthly",
             tokens |-> 2, monthly_refill_tokens |-> 0]
       [] p = "price_std_m" ->
            [plan_option |-> "standard", plan_type |-> "monthly",
             tokens |-> 2, monthly_refill_tokens |-> 0]
       [] OTHER ->
            [plan_option |-> "premium", plan_type |-> "yearly",
             tokens |-> 2, monthly_refill_tokens |-> 1]]

\* Stripe.Price.recurring.interval of the same prices.
StripePriceInterval ==
  [p \in PriceIds |-> IF p = "price_prem_y" THEN "year" ELSE "month"]

\* token_prices, keyed by plan_option.
TierIds == {"tier1"}
token_prices == [p \in TierIds |-> [plan_type |-> "one_time", tokens |-> 2]]

\* ------------------------------------------------------------------ state
VARIABLES
  db,         \* the Postgres store, one field per table
  now,        \* the wall clock, in ticks
  cons,       \* per caller: the consume_tokens transaction in flight
  hooks,      \* per worker: the invoice handler between its check and its insert
  maint,      \* per runner: the maintenance invocation in flight
  resp,       \* the response returned last
  delivered,  \* requests the edge functions have accepted so far
  processed,  \* events whose handling ran to the final 200 "ok"
  lastPass    \* the last completed maintenance pass: its now, the store it left, its grants

vars == <<db, now, cons, hooks, maint, resp, delivered, processed, lastPass>>

\* user_token_batches row, as inserted by the grant paths (consumed defaults to 0).
Batch(u, src, subId, purId, inv, amt, exp, nt) ==
  [user_id |-> u, source |-> src, subscription_id |-> subId, purchase_id |-> purId,
   invoice_id |-> inv, amount |-> amt, consumed |-> 0, is_active |-> TRUE,
   expires_at |-> exp, note |-> nt]

\* token_event_logs row.
LogRow(u, b, dl, rs) == [user_id |-> u, batch_id |-> b, delta |-> dl, reason |-> rs]

BatchIds(d) == DOMAIN d.user_token_batches

IdleCons == [pc |-> "idle", user_id |-> NULL, amount |-> 0, started |-> 0,
             v_remaining |-> 0, v_consumed |-> 0, cursor |-> <<>>, writes |-> <<>>]

IdleMaint == [pc |-> "idle", now |-> 0, queue |-> {}, granted |-> {}, repeat |-> FALSE]

Response(op, key, status, body, n) ==
  [op |-> op, key |-> key, status |-> status, body |-> body, consumed |-> n]

\* ------------------------------------------------------------------ consume_tokens
\* Rows the FOR query of consume_tokens selects.  consumed_pending is 0 in
\* every row (column default; no statement writes it).
Candidates(d, u) ==
  {i \in BatchIds(d) :
     /\ d.user_token_batches[i].user_id = u
     /\ d.user_token_batches[i].is_active
     /\ d.user_token_batches[i].amount - d.user_token_batches[i].consumed - 0 > 0}

\* ORDER BY expires_at ASC: every order of the candidates that is ascending in
\* expires_at; rows with equal expires_at come in an order the planner picks.
FifoOrders(d, u) ==
  LET C == Candidates(d, u)
      n == Cardinality(C)
  IN {s \in [1..n -> C] :
        /\ \A i, j \in 1..n : i # j => s[i] # s[j]
        /\ \A i, j \in 1..n :
             i < j => d.user_token_batches[s[i]].expires_at
                        <= d.user_token_batches[s[j]].expires_at}

CursorOf(d, s) ==
  [k \in DOMAIN s |->
     [id |-> s[k],
      available |-> d.user_token_batches[s[k]].amount
                      - d.user_token_batches[s[k]].consumed - 0]]

\* Rows a transaction has updated and therefore holds locked until it ends.
LockedBy(c) == {cons[c].writes[k].id : k \in DOMAIN cons[c].writes}

\* The transaction holding the row that caller c's next UPDATE needs, or 0.
Blocker(c) ==
  IF cons[c].pc = "loop" /\ cons[c].v_remaining > 0 /\ cons[c].cursor # <<>>
  THEN LET H == {q \in Callers \ {c} : Head(cons[c].cursor).id \in LockedBy(q)}
       IN IF H = {} THEN 0 ELSE CHOOSE q \in H : TRUE
  ELSE 0

RECURSIVE WaitsOn(_, _, _)
\* TRUE iff following the blockers from c for at most k steps reaches target.
WaitsOn(c, target, k) ==
  IF k = 0 \/ Blocker(c) = 0 THEN FALSE
  ELSE Blocker(c) = target \/ WaitsOn(Blocker(c), target, k - 1)

\* token_service: a request without user_id is rejected before the RPC is called.
ConsumeBadRequest(c, u) ==
  /\ cons[c].pc = "idle"
  /\ u = NULL
  /\ delivered < MaxDeliveries
  /\ delivered' = delivered + 1
  /\ resp' = Response("consume", c, 400, "Missing or invalid parameters", 0)
  /\ UNCHANGED <<db, now, cons, hooks, maint, processed, lastPass>>

\* The function body references consumed_pending; where the migration has
\* dropped that column the query fails and the RPC returns an error.
ConsumeUndefinedColumn(c, u, amt) ==
  /\ cons[c].pc = "idle"
  /\ u # NULL
  /\ ~db.has_consumed_pending
  /\ delivered < MaxDeliveries
  /\ delivered' = delivered + 1
  /\ resp' = Response("consume", c, 500, "error", 0)
  /\ UNCHANGED <<db, now, cons, hooks, maint, processed, lastPass>>

\* The RPC starts: the FOR query is evaluated on the committed rows.
ConsumeBegin(c, u, amt) ==
  /\ cons[c].pc = "idle"
  /\ u # NULL
  /\ db.has_consumed_pending
  /\ delivered < MaxDeliveries
  /\ delivered' = delivered + 1
  /\ \E s \in FifoOrders(db, u) :
       cons' = [cons EXCEPT ![c] =
                  [pc |-> "loop", user_id |-> u, amount |-> amt, started |-> now,
                   v_remaining |-> amt, v_consumed |-> 0,
                   cursor |-> CursorOf(db, s), writes |-> <<>>]]
  /\ UNCHANGED <<db, now, hooks, maint, resp, processed, lastPass>>

\* One iteration of the loop: UPDATE ... SET consumed = consumed + take, which
\* waits while another transaction holds the row, then the journal INSERT.
ConsumeStep(c) ==
  /\ cons[c].pc = "loop"
  /\ cons[c].v_remaining > 0
  /\ cons[c].cursor # <<>>
  /\ Blocker(c) = 0
  /\ LET h == Head(cons[c].cursor)
         v_take_amount == Min(cons[c].v_remaining, h.available)
     IN cons' = [cons EXCEPT
                   ![c].v_remaining = @ - v_take_amount,
                   ![c].v_consumed = @ + v_take_amount,
                   ![c].cursor = Tail(@),
                   ![c].writes = Append(@, [id |-> h.id, take |-> v_take_amount])]
  /\ UNCHANGED <<db, now, hooks, maint, resp, delivered, processed, lastPass>>

RECURSIVE ApplyWrites(_, _)
\* The committed rows after the transaction's updates, each a delta on the row.
ApplyWrites(bs, ws) ==
  IF ws = <<>> THEN bs
  ELSE ApplyWrites([bs EXCEPT ![Head(ws).id].consumed = @ + Head(ws).take], Tail(ws))

JournalOf(u, ws, rs) ==
  [k \in DOMAIN ws |-> LogRow(u, ws[k].id, 0 - ws[k].take, rs)]

\* v_remaining <= 0 after the loop: RETURN v_consumed, the transaction commits.
ConsumeReturn(c) ==
  /\ cons[c].pc = "loop"
  /\ cons[c].v_remaining <= 0
  /\ db' = [db EXCEPT
              !.user_token_batches = ApplyWrites(@, cons[c].writes),
              !.token_event_logs = @ \o JournalOf(cons[c].user_id, cons[c].writes, "use")]
  /\ cons' = [cons EXCEPT ![c] = IdleCons]
  /\ resp' = Response("consume", c, 200, "consumed", cons[c].v_consumed)
  /\ UNCHANGED <<now, hooks, maint, delivered, processed, lastPass>>

\* v_remaining > 0 after the loop: RAISE EXCEPTION, the transaction rolls back.
ConsumeRaise(c) ==
  /\ cons[c].pc = "loop"
  /\ cons[c].v_remaining > 0
  /\ cons[c].cursor = <<>>
  /\ cons' = [cons EXCEPT ![c] = IdleCons]
  /\ resp' = Response("consume", c, 500, "Insufficient tokens available", 0)
  /\ UNCHANGED <<db, now, hooks, maint, delivered, processed, lastPass>>

\* Two transactions wait for each other's row: Postgres aborts one of them.
ConsumeDeadlock(c) ==
  /\ cons[c].pc = "loop"
  /\ WaitsOn(c, c, NumCallers)
  /\ cons' = [cons EXCEPT ![c] = IdleCons]
  /\ resp' = Response("consume", c, 500, "deadlock detected", 0)
  /\ UNCHANGED <<db, now, hooks, maint, delivered, processed, lastPass>>

\* ------------------------------------------------------------------ payment gateway
\* What Stripe holds and sends.  An event's id is the event itself: two
\* deliveries of one record are redeliveries, two records are distinct ids.
StripeSubIds == {"sub_1", "sub_2", "sub_3"}

\* Stripe.Subscription objects: sub_1 carries metadata.user_id, sub_2 only its
\* customer; sub_3 was created without metadata for customer cus_2.
StripeSub ==
  [s \in StripeSubIds |->
     IF s = "sub_1"
     THEN [customer |-> "cus_1", metadata_user_id |-> "u1",
           current_period_end |-> AddMonth(0)]
     ELSE IF s = "sub_2"
     THEN [customer |-> "cus_1", metadata_user_id |-> NULL,
           current_period_end |-> AddYear(0)]
     ELSE [customer |-> "cus_2", metadata_user_id |-> NULL,
           current_period_end |-> AddMonth(0)]]

\* stripe.customers.retrieve(id).email
StripeCustomerEmail ==
  [c \in {"cus_1", "cus_2"} |->
     IF c = "cus_1" THEN "u1@example.com" ELSE "billing@example.com"]

\* Stripe.Checkout.Session objects: two purchases of u1 and one of u3, and a
\* subscription checkout of u2 under a new customer.
SessionIds == {"cs_1", "cs_2", "cs_3", "cs_4"}
Session ==
  [s \in SessionIds |->
     IF s = "cs_3"
     THEN [user_id |-> "u3", customer |-> "cus_3", mode |-> "payment",
           plan_option |-> "tier1"]
     ELSE IF s = "cs_4"
     THEN [user_id |-> "u2", customer |-> "cus_4", mode |-> "subscription",
           plan_option |-> "basic"]
     ELSE [user_id |-> "u1", customer |-> "cus_1", mode |-> "payment",
           plan_option |-> "tier1"]]

\* Stripe.Invoice objects: the first, the renewal and the upgrade invoice of
\* the monthly subscription sub_1 (in_1, in_4, in_6) and of the yearly
\* subscription sub_2 (in_2, in_3, in_5), and the first invoice of sub_3 (in_7).
InvoiceIds == {"in_1", "in_2", "in_3", "in_4", "in_5", "in_6", "in_7"}
StripeInvoice ==
  [i \in InvoiceIds |->
     [subscription |-> IF i \in {"in_1", "in_4", "in_6"} THEN "sub_1"
                       ELSE IF i = "in_7" THEN "sub_3" ELSE "sub_2",
      customer |-> IF i = "in_7" THEN "cus_2" ELSE "cus_1", status |-> "paid",
      billing_reason |-> IF i \in {"in_1", "in_2", "in_7"} THEN "subscription_create"
                         ELSE IF i \in {"in_3", "in_4"} THEN "subscription_cycle"
                         ELSE "subscription_update",
      line_period_end |-> NullTime,
      \* what the gateway's lookups about the failed payment yield: the
      \* payment intent's last error, nothing at all, or an exception each
      lookups |-> IF i = "in_1" THEN "fail"
                  ELSE IF i = "in_4" THEN "nothing" ELSE "found"]]

\* Stripe.PaymentIntent objects: pi_1 and pi_3 pay invoice in_1, pi_3 without a
\* last_payment_error; pi_2 is a one-time purchase.
PaymentIntent ==
  [p \in {"pi_1", "pi_2", "pi_3"} |->
     IF p = "pi_1"
     THEN [invoice |-> "in_1", user_id |-> NULL, plan_option |-> NULL,
           reason |-> "payment_intent: code=card_declined"]
     ELSE IF p = "pi_3"
     THEN [invoice |-> "in_1", user_id |-> NULL, plan_option |-> NULL, reason |-> NULL]
     ELSE [invoice |-> NULL, user_id |-> "u1", plan_option |-> "tier1", reason |-> NULL]]

\* Stripe.Charge objects: ch_2 carries no failure code, message or outcome.
Charge ==
  [c \in {"ch_1", "ch_2"} |->
     [invoice |-> "in_1",
      failure_code |-> IF c = "ch_1" THEN "card_declined" ELSE NULL]]

Event(type, obj, price, status) ==
  [type |-> type, obj |-> obj, price |-> price, status |-> status]

\* The store operations of the handlers, and the Stripe API, each of which can
\* fail during one handling.
StoreOps ==
  {"webhook_events.insert", "users.update", "users.select", "token_prices.select",
   "user_token_purchases.insert", "user_token_purchases.select",
   "user_token_batches.insert", "user_token_batches.select",
   "token_event_logs.insert", "subscriptions.upsert", "subscriptions.update",
   "subscriptions.select", "subscription_prices.select", "referrals.select",
   "referrals.update", "stripe"}

MaxFailures == 1     \* store operations that fail during one handling
Failures == {F \in SUBSET StoreOps : Cardinality(F) <= MaxFailures}

\* ------------------------------------------------------------------ store statements
\* Outcome of a handler: the store it leaves and how the switch was left
\* ("ok" = break, "err" = throw).
Ok(d)  == [db |-> d, st |-> "ok"]
Err(d) == [db |-> d, st |-> "err"]

REFERRAL_TOKEN_AMOUNT == 1

\* gen_random_uuid() of the k-th user_token_purchases row: no batch id.
PurchaseUuid(k) == 0 - k

\* users UPDATE ... WHERE user_id = u; stripe_customer_id is UNIQUE.
BindCustomer(d, u, cust, F) ==
  IF \/ "users.update" \in F
     \/ u \notin DOMAIN d.users
     \/ \E v \in DOMAIN d.users : v # u /\ d.users[v].stripe_customer_id = cust
  THEN d
  ELSE [d EXCEPT !.users[u].stripe_customer_id = cust]

\* A row with the columns named in upd overwritten.
Update(row, upd) ==
  [f \in DOMAIN row |-> IF f \in DOMAIN upd THEN upd[f] ELSE row[f]]

\* users UPDATE ... WHERE user_id = u, where no handler looks at the error.
UpdateUser(d, u, upd, F) ==
  IF "users.update" \in F \/ u \notin DOMAIN d.users THEN d
  ELSE [d EXCEPT !.users[u] = Update(@, upd)]

\* The subscriptions row of a Stripe subscription id (UNIQUE) exists.
SubExists(d, s) == s \in DOMAIN d.subscriptions

\* subscriptions UPDATE ... WHERE the row is s, once the statement has not failed.
UpdateSub(d, s, upd) ==
  IF ~SubExists(d, s) THEN d
  ELSE [d EXCEPT !.subscriptions[s] = Update(@, upd)]

\* user_token_batches INSERT: TRUE iff the statement returns no error.  The
\* table has its primary key and no other unique constraint.
CanInsertBatch(d, row, F) == "user_token_batches.insert" \notin F

\* The insert without the invoice_id column.
InsertBatchUnanchored(d, row) ==
  [d EXCEPT !.user_token_batches = Append(@, [row EXCEPT !.invoice_id = NULL])]

InsertBatch(d, row) == [d EXCEPT !.user_token_batches = Append(@, row)]

\* token_event_logs INSERT; batch_id REFERENCES user_token_batches(id).  No
\* handler looks at its error.
InsertLog(d, row, F) ==
  IF "token_event_logs.insert" \in F \/ row.batch_id \notin BatchIds(d) THEN d
  ELSE [d EXCEPT !.token_event_logs = Append(@, row)]

PurchaseExists(d, pid) ==
  \E k \in DOMAIN d.user_token_purchases :
     d.user_token_purchases[k].stripe_purchase_id = pid

PurchaseRow(u, plan, pid, amt) ==
  [user_id |-> u, plan |-> plan, stripe_purchase_id |-> pid, amount |-> amt]

\* ------------------------------------------------------------------ webhook helpers
\* true = proceed, false = duplicate; any other insert error is logged and the
\* event proceeds unrecorded.
recordEventOnce(d, e, F) ==
  IF "webhook_events.insert" \in F THEN [db |-> d, proceed |-> TRUE]
  ELSE IF e \in d.webhook_events THEN [db |-> d, proceed |-> FALSE]
  ELSE [db |-> [d EXCEPT !.webhook_events = @ \cup {e}], proceed |-> TRUE]

\* metadata.user_id, else users.stripe_customer_id, else the customer's email.
resolveUserId(d, s, F) ==
  LET sub == StripeSub[s]
      byCustomer == {u \in DOMAIN d.users : d.users[u].stripe_customer_id = sub.customer}
      byEmail == {u \in DOMAIN d.users :
                    d.users[u].email = StripeCustomerEmail[sub.customer]}
  IN IF sub.metadata_user_id # NULL THEN sub.metadata_user_id
     ELSE IF "users.select" \notin F /\ byCustomer # {}
       THEN CHOOSE u \in byCustomer : TRUE
     ELSE IF "users.select" \notin F /\ byEmail # {}
       THEN CHOOSE u \in byEmail : TRUE
     ELSE NULL

getLocalSubscriptionId(d, s, F) ==
  IF "subscriptions.select" \in F \/ ~SubExists(d, s) THEN NULL ELSE s

\* note of a referral batch: `Referral: ${referred_user_id}`.
ReferralNote(referred) ==
  CASE referred = "u1" -> "Referral: u1"
    [] referred = "u2" -> "Referral: u2"
    [] OTHER -> "Referral: u3"

\* handleReferralReward up to its two lookups: the pending referral of the
\* user who has just paid and a reward batch the referrer already holds.
\* st = "grant": the reward goes to referrer.
ReferralCheck(d, referred, F) ==
  LET pending == {r \in d.referrals : r.referred_user_id = referred /\ ~r.is_rewarded}
  IN IF REFERRAL_TOKEN_AMOUNT <= 0 THEN [st |-> "skip", referrer |-> NULL]
     ELSE IF "referrals.select" \in F \/ pending = {} THEN [st |-> "skip", referrer |-> NULL]
     ELSE
       LET ref == CHOOSE r \in pending : TRUE
           rewards == {i \in BatchIds(d) :
                         /\ d.user_token_batches[i].source = "referral"
                         /\ d.user_token_batches[i].user_id = ref.referrer_user_id}
       IN \* maybeSingle(): data only when exactly one row matches
          IF "user_token_batches.select" \notin F /\ Cardinality(rewards) = 1
          THEN [st |-> "skip", referrer |-> NULL]
          ELSE [st |-> "grant", referrer |-> ref.referrer_user_id]

\* The rest of handleReferralReward: insert the reward batch, mark the
\* referral rewarded, journal the credit.
ReferralGrant(d, referrer, referred, F, t) ==
  LET row == Batch(referrer, "referral", NULL, NullId, NULL,
                   REFERRAL_TOKEN_AMOUNT, Add365Days(t), ReferralNote(referred))
  IN IF ~CanInsertBatch(d, row, F) THEN Err(d)
     ELSE
       LET d1 == InsertBatch(d, row)
           newBatch == Len(d1.user_token_batches)
       IN IF "referrals.update" \in F THEN Err(d1)
          ELSE
            LET d2 == [d1 EXCEPT !.referrals =
                         {IF r.referred_user_id = referred
                          THEN [r EXCEPT !.is_rewarded = TRUE] ELSE r : r \in @}]
            IN Ok(InsertLog(d2, LogRow(referrer, newBatch,
                                       REFERRAL_TOKEN_AMOUNT, "referral_reward"), F))

\* Referral reward for the referrer of a user who has just paid.
handleReferralReward(d, referred, F, t) ==
  LET c == ReferralCheck(d, referred, F)
  IN IF c.st = "skip" THEN Ok(d) ELSE ReferralGrant(d, c.referrer, referred, F, t)

\* case "checkout.session.completed", up to the call of handleReferralReward.
\* st = "referral": the purchase is recorded and the handler goes on to the
\* referral reward.
CheckoutPurchase(d, e, F, t) ==
  LET session == Session[e.obj]
      d1 == IF session.user_id # NULL /\ session.customer # NULL
            THEN BindCustomer(d, session.user_id, session.customer, F) ELSE d
  IN IF session.mode = "subscription" THEN Ok(d1)
     ELSE IF session.mode # "payment" THEN Ok(d1)
     ELSE IF \/ "token_prices.select" \in F
             \/ session.plan_option \notin DOMAIN token_prices
             \/ token_prices[session.plan_option].plan_type # "one_time"
       THEN Err(d1)
     ELSE IF "user_token_purchases.insert" \in F \/ PurchaseExists(d1, e.obj)
       THEN Err(d1)
     ELSE
       LET tier == token_prices[session.plan_option]
           d2 == [d1 EXCEPT !.user_token_purchases =
                    Append(@, PurchaseRow(session.user_id, session.plan_option,
                                          e.obj, tier.tokens))]
           purchase == PurchaseUuid(Len(d2.user_token_purchases))
           row == Batch(session.user_id, "purchase", NULL, purchase, NULL,
                        tier.tokens, Add60Days(t), "one-time-purchase")
       IN IF ~CanInsertBatch(d2, row, F) THEN Err(d2)
          ELSE [db |-> InsertLog(InsertBatch(d2, row),
                                 LogRow(session.user_id, purchase, tier.tokens, "purchase"), F),
                st |-> "referral"]

\* case "checkout.session.completed"
HandleCheckout(d, e, F, t) ==
  LET c == CheckoutPurchase(d, e, F, t)
  IN IF c.st = "referral"
     THEN handleReferralReward(c.db, Session[e.obj].user_id, F, t)
     ELSE c

\* Lookup of the catalog row by price_id; FALSE = { tokens: null, ... } / no data.
CatalogFound(p, F) == "subscription_prices.select" \notin F /\ p \in PriceIds

SubRow(u, p, cycle, active, cpe) ==
  [user_id |-> u, plan |-> p, plan_option |-> subscription_prices[p].plan_option,
   billing_cycle |-> cycle, stripe_subscription_id |-> NULL, is_active |-> active,
   current_period_end |-> cpe, last_monthly_refill |-> NullTime,
   payment_failure_reason |-> NULL]

\* case "customer.subscription.created"
HandleSubscriptionCreated(d, e, F, t) ==
  LET user_id == resolveUserId(d, e.obj, F)
  IN IF user_id = NULL THEN Ok(d)
     ELSE IF ~CatalogFound(e.price, F) THEN Err(d)
     ELSE IF "subscriptions.upsert" \in F THEN Err(d)
     ELSE
       LET cycle == dbCycleFromStripe(StripePriceInterval[e.price])
           payload == [SubRow(user_id, e.price, cycle, e.status = "active",
                              StripeSub[e.obj].current_period_end)
                       EXCEPT !.stripe_subscription_id = e.obj]
           d1 == [d EXCEPT !.subscriptions =
                    [s \in DOMAIN @ \cup {e.obj} |-> IF s = e.obj THEN payload ELSE @[s]]]
       IN Ok(UpdateUser(d1, user_id,
                        [has_active_subscription |-> TRUE, has_payment_issue |-> FALSE], F))

\* case "customer.subscription.updated"
HandleSubscriptionUpdated(d, e, F, t) ==
  IF "subscriptions.select" \in F THEN Err(d)
  ELSE IF ~CatalogFound(e.price, F) THEN Err(d)
     ELSE IF "subscriptions.update" \in F THEN Err(d)
     ELSE
       LET cycle == dbCycleFromStripe(StripePriceInterval[e.price])
           catalog == subscription_prices[e.price]
           d1 == UpdateSub(d, e.obj,
                   [plan |-> e.price, plan_option |-> catalog.plan_option,
                    billing_cycle |-> cycle,
                    current_period_end |-> StripeSub[e.obj].current_period_end,
                    is_active |-> (e.status = "active")])
       IN IF ~SubExists(d, e.obj) THEN Ok(d1)
          ELSE IF d.subscriptions[e.obj].plan_option = catalog.plan_option THEN Ok(d1)
          ELSE
            LET user_id == resolveUserId(d1, e.obj, F)
                localSubId == getLocalSubscriptionId(d1, e.obj, F)
                monthlyRefillAmount ==
                  IF catalog.monthly_refill_tokens # 0 THEN catalog.monthly_refill_tokens
                  ELSE catalog.tokens \div 12
                tokensToCredit ==
                  IF cycle = "yearly" THEN monthlyRefillAmount ELSE catalog.tokens
                expiresAt ==
                  IF cycle = "yearly" THEN addExpiry(t, "monthly")
                  ELSE StripeSub[e.obj].current_period_end
                \* the stamp is written with an unchecked update
                d2 == IF cycle = "yearly"
                      THEN UpdateSub(d1, e.obj, [last_monthly_refill |-> t])
                      ELSE d1
                row == Batch(user_id, "subscription", localSubId, NullId, NULL,
                             tokensToCredit, expiresAt, "plan-upgrade")
            IN IF user_id = NULL \/ localSubId = NULL \/ tokensToCredit <= 0 THEN Ok(d2)
               ELSE IF ~CanInsertBatch(d2, row, F) THEN Err(d2)
               ELSE
                 LET d3 == InsertBatch(d2, row)
                 IN Ok(InsertLog(d3, LogRow(user_id, Len(d3.user_token_batches),
                                            tokensToCredit, "subscription_upgrade_credit"), F))

\* The deleted handler as it would be if it also deactivated the batches
\* granted for the subscription.
HandleSubscriptionDeletedRevoking(d, e, F, t) ==
  IF "subscriptions.update" \in F THEN Err(d)
  ELSE
    LET d1 == [d EXCEPT
                 !.subscriptions =
                    [s \in DOMAIN @ |->
                       IF s = e.obj THEN [@[s] EXCEPT !.is_active = FALSE] ELSE @[s]],
                 !.user_token_batches =
                    [i \in DOMAIN @ |->
                       IF @[i].subscription_id = e.obj
                       THEN [@[i] EXCEPT !.is_active = FALSE] ELSE @[i]]]
    IN Ok([d1 EXCEPT !.users =
             [u \in DOMAIN @ |->
                IF \E s \in DOMAIN d.subscriptions :
                      s = e.obj /\ d.subscriptions[s].user_id = u
                THEN [@[u] EXCEPT !.has_active_subscription = FALSE] ELSE @[u]]])

\* case "customer.subscription.deleted"
HandleSubscriptionDeleted(d, e, F, t) ==
  LET user_id == resolveUserId(d, e.obj, F)
  IN IF "subscriptions.update" \in F THEN Err(d)
     ELSE
       LET d1 == UpdateSub(d, e.obj, [is_active |-> FALSE])
       IN IF user_id = NULL THEN Ok(d1)
          ELSE Ok(UpdateUser(d1, user_id, [has_active_subscription |-> FALSE], F))

\* The chain as it would be without its heuristics and its last line: only a
\* payment error that a lookup found is reported.
extractLastPaymentError(inv) ==
  IF StripeInvoice[inv].lookups = "found"
  THEN "payment_intent: code=card_declined" ELSE NULL

\* The escalation chain: every lookup sits in its own try/catch; the first
\* one that yields a payment error decides, lookups that yield nothing end in
\* a heuristic text, and when they all throw the last line answers.
extractFailureReasonFromInvoice(inv) ==
  LET found == StripeInvoice[inv].lookups
  IN IF found = "found" THEN "payment_intent: code=card_declined"
     ELSE IF found = "nothing"
       THEN "no_attempt_yet: invoice open with no payment_intent or charge"
     ELSE "unknown: status=open, attempt_count=0, next_attempt=null"

\* case "invoice.payment_failed"
HandleInvoicePaymentFailed(d, e, F, t) ==
  LET inv == StripeInvoice[e.obj]
      stripeSubId == inv.subscription
      failureReason == extractFailureReasonFromInvoice(e.obj)
  IN IF stripeSubId = NULL THEN Ok(d)
     ELSE IF "subscriptions.select" \in F THEN Err(d)
     ELSE IF ~SubExists(d, stripeSubId) THEN Ok(d)
     ELSE IF "subscriptions.update" \in F THEN Err(d)
     ELSE
       LET user_id == d.subscriptions[stripeSubId].user_id
           d1 == UpdateSub(d, stripeSubId, [payment_failure_reason |-> failureReason])
       IN Ok(UpdateUser(d1, user_id, [has_payment_issue |-> TRUE], F))

writeFailureToDb(d, user_id, localSubId, reason, F) ==
  IF "subscriptions.update" \in F THEN Err(d)
  ELSE
    LET d1 == UpdateSub(d, localSubId,
                        [is_active |-> FALSE, payment_failure_reason |-> reason])
    IN Ok(UpdateUser(d1, user_id,
                     [has_active_subscription |-> FALSE, has_payment_issue |-> TRUE], F))

\* case "payment_intent.payment_failed"
HandlePaymentIntentFailed(d, e, F, t) ==
  LET pi == PaymentIntent[e.obj]
  IN IF pi.invoice = NULL THEN Ok(d)
     ELSE IF "stripe" \in F THEN Err(d)
     ELSE
       LET stripeSubId == StripeInvoice[pi.invoice].subscription
       IN IF stripeSubId = NULL THEN Ok(d)
          ELSE IF "subscriptions.select" \in F THEN Err(d)
          ELSE IF ~SubExists(d, stripeSubId) THEN Ok(d)
          ELSE
            LET reason == IF pi.reason # NULL THEN pi.reason
                          ELSE "unknown: from payment_intent"
            IN writeFailureToDb(d, d.subscriptions[stripeSubId].user_id,
                                stripeSubId, reason, F)

\* case "charge.failed"
HandleChargeFailed(d, e, F, t) ==
  LET ch == Charge[e.obj]
  IN IF ch.invoice = NULL THEN Ok(d)
     ELSE IF "stripe" \in F THEN Err(d)
     ELSE
       LET stripeSubId == StripeInvoice[ch.invoice].subscription
       IN IF stripeSubId = NULL THEN Ok(d)
          ELSE IF "subscriptions.select" \in F \/ ~SubExists(d, stripeSubId)
            THEN Ok(d)
          ELSE
            LET reason == IF ch.failure_code # NULL THEN "charge: failure_code"
                          ELSE "unknown: from charge"
            IN writeFailureToDb(d, d.subscriptions[stripeSubId].user_id,
                                stripeSubId, reason, F)

\* case "invoice.paid" / "invoice.payment_succeeded", up to and including the
\* lookup of an existing batch for the invoice.  st = "insert": no batch was
\* found and the handler goes on to insert the row carried in the result.
InvoiceCheck(d, e, F, t) ==
  LET inv == StripeInvoice[e.obj]
      br == inv.billing_reason
      isInitialCreation == br = "subscription_create"
      isUpgradeInvoice == br = "subscription_update"
      isRenewal == br = "subscription_cycle"
      stripeSubId == inv.subscription
  IN IF inv.status # "paid" THEN Ok(d)
     ELSE IF ~(isInitialCreation \/ isUpgradeInvoice \/ isRenewal) THEN Ok(d)
     ELSE IF stripeSubId = NULL THEN Ok(d)
     ELSE IF "stripe" \in F THEN Err(d)
     ELSE
       LET user_id == resolveUserId(d, stripeSubId, F)
           cycle == dbCycleFromStripe(StripePriceInterval[e.price])
       IN IF user_id = NULL THEN Ok(d)
          ELSE IF ~CatalogFound(e.price, F) THEN Err(d)
          ELSE IF cycle = "yearly" /\ isRenewal THEN Ok(d)
          ELSE
            LET priceData == subscription_prices[e.price]
                tokensToCredit == IF cycle = "yearly" THEN priceData.monthly_refill_tokens
                                  ELSE priceData.tokens
                firstMonthYearly == cycle = "yearly" /\ (isInitialCreation \/ isUpgradeInvoice)
                periodEnd == IF inv.line_period_end # NullTime THEN inv.line_period_end
                             ELSE StripeSub[stripeSubId].current_period_end
                expiresAt == IF firstMonthYearly THEN addExpiry(t, "monthly") ELSE periodEnd
                \* unchecked update of the stamp
                d1 == IF firstMonthYearly /\ "subscriptions.update" \notin F
                      THEN UpdateSub(d, stripeSubId, [last_monthly_refill |-> t])
                      ELSE d
                localSubId == getLocalSubscriptionId(d1, stripeSubId, F)
                d2 == IF "subscriptions.update" \in F THEN d1
                      ELSE UpdateSub(d1, stripeSubId, [payment_failure_reason |-> NULL])
                existing == {i \in BatchIds(d2) : d2.user_token_batches[i].invoice_id = e.obj}
            IN IF tokensToCredit <= 0 THEN Ok(d)
               ELSE IF localSubId = NULL THEN Ok(d1)
               ELSE IF "user_token_batches.select" \in F \/ Cardinality(existing) > 1
                 THEN Err(d2)
               ELSE IF existing # {} THEN Ok(d2)
               ELSE [db |-> d2, st |-> "insert",
                     row |-> Batch(user_id, "subscription", localSubId, NullId, e.obj,
                                   tokensToCredit, expiresAt,
                                   IF firstMonthYearly THEN "first-month-yearly"
                                   ELSE "Subscription"),
                     reason |-> IF isInitialCreation THEN "subscription_initial_credit"
                                ELSE IF isUpgradeInvoice THEN "subscription_upgrade_credit"
                                ELSE "subscription_refill",
                     initial |-> isInitialCreation]

\* The rest of the invoice handler: insert the credit, journal it, set the
\* user's flags, reward the referrer.  c is the result of InvoiceCheck.
InvoiceInsert(d, c, F, t) ==
  IF ~CanInsertBatch(d, c.row, F) THEN Err(d)
  ELSE
    LET d1 == InsertBatch(d, c.row)
        d2 == InsertLog(d1, LogRow(c.row.user_id, Len(d1.user_token_batches),
                                   c.row.amount, c.reason), F)
        d3 == UpdateUser(d2, c.row.user_id,
                         [has_active_subscription |-> TRUE, has_payment_issue |-> FALSE], F)
    IN IF c.initial THEN handleReferralReward(d3, c.row.user_id, F, t) ELSE Ok(d3)

\* The whole invoice handler run without another request in between.
HandleInvoicePaid(d, e, F, t) ==
  LET c == InvoiceCheck(d, e, F, t)
  IN IF c.st = "insert" THEN InvoiceInsert(c.db, c, F, t) ELSE c

\* case "payment_intent.succeeded"
HandlePaymentIntentSucceeded(d, e, F, t) ==
  LET intent == PaymentIntent[e.obj]
      user_id == intent.user_id
      plan_option == intent.plan_option
  IN IF user_id = NULL \/ plan_option = NULL THEN Ok(d)
     ELSE IF "user_token_purchases.select" \in F THEN Err(d)
     ELSE IF PurchaseExists(d, e.obj) THEN Ok(d)
     ELSE IF "token_prices.select" \in F \/ plan_option \notin DOMAIN token_prices
       THEN Err(d)
     ELSE IF "user_token_purchases.insert" \in F THEN Err(d)
     ELSE
       LET tier == token_prices[plan_option]
           d1 == [d EXCEPT !.user_token_purchases =
                    Append(@, PurchaseRow(user_id, plan_option, e.obj, tier.tokens))]
           purchase == PurchaseUuid(Len(d1.user_token_purchases))
           row == Batch(user_id, "purchase", NULL, purchase, NULL, tier.tokens,
                        Add60Days(t), "one-time-purchase-payment-intent")
       IN IF ~CanInsertBatch(d1, row, F) THEN Err(d1) ELSE Ok(InsertBatch(d1, row))

\* switch (event.type)
Handle(d, e, F, t) ==
  CASE e.type = "checkout.session.completed" -> HandleCheckout(d, e, F, t)
    [] e.type = "customer.subscription.created" -> HandleSubscriptionCreated(d, e, F, t)
    [] e.type = "customer.subscription.updated" -> HandleSubscriptionUpdated(d, e, F, t)
    [] e.type = "customer.subscription.deleted" -> HandleSubscriptionDeleted(d, e, F, t)
    [] e.type = "invoice.payment_failed" -> HandleInvoicePaymentFailed(d, e, F, t)
    [] e.type = "payment_intent.payment_failed" -> HandlePaymentIntentFailed(d, e, F, t)
    [] e.type = "charge.failed" -> HandleChargeFailed(d, e, F, t)
    [] e.type \in {"invoice.paid", "invoice.payment_succeeded"} ->
         HandleInvoicePaid(d, e, F, t)
    [] e.type = "payment_intent.succeeded" -> HandlePaymentIntentSucceeded(d, e, F, t)
    [] OTHER -> Ok(d)

\* ------------------------------------------------------------------ webhook requests
Ledger(d) ==
  [users |-> d.users, subscriptions |-> d.subscriptions,
   user_token_purchases |-> d.user_token_purchases,
   user_token_batches |-> d.user_token_batches,
   token_event_logs |-> d.token_event_logs]

\* The answer to a handling that left the switch with r.
Answer(e, r) ==
  IF r.st = "err" THEN Response("webhook", e, 500, "error", 0)
  ELSE Response("webhook", e, 200, "ok", 0)

\* serve(): one delivery of a correctly signed event e, handled without another
\* request in between; F are the operations that fail during it.
Deliver(e, F) ==
  /\ delivered < MaxDeliveries
  /\ LET g == recordEventOnce(db, e, F)
         r == Handle(g.db, e, F, now)
     IN IF ~g.proceed
        THEN /\ db' = g.db
             /\ resp' = Response("webhook", e, 200, "duplicate event", 0)
             /\ processed' = processed
        ELSE /\ Len(r.db.user_token_batches) <= MaxBatches
             /\ db' = r.db
             /\ resp' = Answer(e, r)
             /\ processed' = IF r.st = "ok" THEN processed \cup {e} ELSE processed
  /\ delivered' = delivered + 1
  /\ UNCHANGED <<now, cons, hooks, maint, lastPass>>

\* The signature check as it would be if the event were logged before its
\* signature is verified.
BadSignatureLogged(e) ==
  /\ delivered < MaxDeliveries
  /\ db' = recordEventOnce(db, e, {}).db
  /\ resp' = Response("webhook", e, 400, "Bad signature", 0)
  /\ delivered' = delivered + 1
  /\ UNCHANGED <<now, cons, hooks, maint, processed, lastPass>>

\* serve(): the signature check fails.
BadSignature(e) ==
  /\ delivered < MaxDeliveries
  /\ resp' = Response("webhook", e, 400, "Bad signature", 0)
  /\ delivered' = delivered + 1
  /\ UNCHANGED <<db, now, cons, hooks, maint, processed, lastPass>>

CheckoutSessionCompleted(e, F) ==
  e.type = "checkout.session.completed" /\ Deliver(e, F)
SubscriptionCreated(e, F) ==
  e.type = "customer.subscription.created" /\ Deliver(e, F)
SubscriptionUpdated(e, F) ==
  e.type = "customer.subscription.updated" /\ Deliver(e, F)
SubscriptionDeleted(e, F) ==
  e.type = "customer.subscription.deleted" /\ Deliver(e, F)
InvoicePaymentFailed(e, F) ==
  e.type = "invoice.payment_failed" /\ Deliver(e, F)
PaymentIntentPaymentFailed(e, F) ==
  e.type = "payment_intent.payment_failed" /\ Deliver(e, F)
ChargeFailed(e, F) ==
  e.type = "charge.failed" /\ Deliver(e, F)
InvoicePaid(e, F) ==
  e.type \in {"invoice.paid", "invoice.payment_succeeded"} /\ Deliver(e, F)
PaymentIntentSucceeded(e, F) ==
  e.type = "payment_intent.succeeded" /\ Deliver(e, F)

\* Concurrent requests: the invoice handler of worker w up to its lookup of an
\* existing batch ...
InvoicePaidCheck(w, e, F) ==
  /\ e.type \in {"invoice.paid", "invoice.payment_succeeded"}
  /\ hooks[w] = <<>>
  /\ delivered + Cardinality({v \in Workers : hooks[v] # <<>>}) < MaxDeliveries
  /\ LET g == recordEventOnce(db, e, F)
         c == InvoiceCheck(g.db, e, F, now)
     IN /\ db' = IF g.proceed THEN c.db ELSE g.db
        /\ IF g.proceed /\ c.st = "insert"
           THEN /\ hooks' = [hooks EXCEPT ![w] =
                               <<[event |-> e, row |-> c.row, reason |-> c.reason,
                                  initial |-> c.initial]>>]
                /\ UNCHANGED <<resp, delivered, processed>>
           ELSE /\ resp' = IF ~g.proceed
                           THEN Response("webhook", e, 200, "duplicate event", 0)
                           ELSE Answer(e, c)
                /\ delivered' = delivered + 1
                /\ processed' = IF g.proceed /\ c.st = "ok"
                                THEN processed \cup {e} ELSE processed
                /\ UNCHANGED hooks
  /\ UNCHANGED <<now, cons, maint, lastPass>>

\* ... and from its insert of the credit to its response.
InvoicePaidInsert(w, F) ==
  /\ hooks[w] # <<>>
  /\ LET c == hooks[w][1]
         r == InvoiceInsert(db, c, F, now)
     IN /\ Len(r.db.user_token_batches) <= MaxBatches
        /\ db' = r.db
        /\ resp' = Answer(c.event, r)
        /\ processed' = IF r.st = "ok" THEN processed \cup {c.event} ELSE processed
  /\ hooks' = [hooks EXCEPT ![w] = <<>>]
  /\ delivered' = delivered + 1
  /\ UNCHANGED <<now, cons, maint, lastPass>>

\* ------------------------------------------------------------------ maintenance
\* run_subscription_maintenance, invoked by the scheduler.  Its statements:
MaintOps ==
  {"expired.select", "batch.deactivate", "active.select", "sub.deactivate",
   "user.unset", "yearly.select"}

MaintFailures == {M \in SUBSET MaintOps : Cardinality(M) <= MaxFailures}

\* Batches the sweep selects: is_active and expires_at < now.
ExpiredBatches(d, t) ==
  {i \in BatchIds(d) :
     d.user_token_batches[i].is_active /\ d.user_token_batches[i].expires_at < t}

DeactivateBatches(d, B) ==
  [d EXCEPT !.user_token_batches =
     [i \in DOMAIN @ |-> IF i \in B THEN [@[i] EXCEPT !.is_active = FALSE] ELSE @[i]]]

\* Active subscriptions whose current_period_end < now.
EndedSubs(d, t) ==
  {s \in DOMAIN d.subscriptions :
     d.subscriptions[s].is_active /\ d.subscriptions[s].current_period_end < t}

DeactivateSubs(d, S) ==
  [d EXCEPT !.subscriptions =
     [s \in DOMAIN @ |-> IF s \in S THEN [@[s] EXCEPT !.is_active = FALSE] ELSE @[s]]]

UnsetUsers(d, U) ==
  [d EXCEPT !.users =
     [u \in DOMAIN @ |->
        IF u \in U THEN [@[u] EXCEPT !.has_active_subscription = FALSE] ELSE @[u]]]

\* The rows the yearly query returns: id, user_id, plan, last_monthly_refill.
YearlySubs(d) ==
  {[id |-> s, user_id |-> d.subscriptions[s].user_id, plan |-> d.subscriptions[s].plan,
    last_monthly_refill |-> d.subscriptions[s].last_monthly_refill] :
     s \in {x \in DOMAIN d.subscriptions :
              d.subscriptions[x].billing_cycle = "yearly" /\ d.subscriptions[x].is_active}}

\* Rows of subscription_prices with plan_option = plan and plan_type = 'yearly';
\* .single() succeeds iff there is exactly one.
MonthlyTokenRows(plan) ==
  {p \in PriceIds : /\ subscription_prices[p].plan_option = plan
                    /\ subscription_prices[p].plan_type = "yearly"}

getMonthlyTokenAmount(plan) ==
  subscription_prices[CHOOSE p \in MonthlyTokenRows(plan) : TRUE].tokens

\* A consume transaction holds one of these rows: the sweep's UPDATE waits.
RowLocked(B) == \E c \in Callers : LockedBy(c) \cap B # {}

\* The run from its start to the query of the yearly subscriptions: expire the
\* batches, deactivate the ended subscriptions, clear their users' flags.
MaintBegin(r, M) ==
  /\ maint[r].pc = "idle"
  /\ delivered < MaxDeliveries
  /\ delivered' = delivered + 1
  /\ ~RowLocked(ExpiredBatches(db, now))
  /\ LET d1 == IF "batch.deactivate" \in M THEN db
               ELSE DeactivateBatches(db, ExpiredBatches(db, now))
         ended == EndedSubs(d1, now)
         d2 == IF "sub.deactivate" \in M THEN d1 ELSE DeactivateSubs(d1, ended)
         d3 == IF "user.unset" \in M THEN d2
               ELSE UnsetUsers(d2, {d1.subscriptions[s].user_id : s \in ended})
     IN IF "expired.select" \in M
        THEN /\ resp' = Response("maintenance", r, 500,
                                 "Error fetching expired token batches", 0)
             /\ UNCHANGED <<db, maint>>
        ELSE IF "active.select" \in M
        THEN /\ resp' = Response("maintenance", r, 500,
                                 "Error fetching active subscriptions", 0)
             /\ db' = d1
             /\ UNCHANGED maint
        ELSE IF "yearly.select" \in M
        THEN /\ resp' = Response("maintenance", r, 500,
                                 "Error fetching yearly subscriptions", 0)
             /\ db' = d3
             /\ UNCHANGED maint
        ELSE /\ db' = d3
             /\ maint' = [maint EXCEPT ![r] =
                            [pc |-> "refill", now |-> now, queue |-> YearlySubs(d3),
                             granted |-> {},
                             repeat |-> lastPass.at = now /\ lastPass.after = db]]
             /\ UNCHANGED resp
  /\ UNCHANGED <<now, cons, hooks, processed, lastPass>>

\* One iteration of the refill loop, for a row of the query's result.  insOk
\* and updOk: the batch insert and the stamp update return no error.
MaintRefill(r, sub, insOk, updOk) ==
  /\ maint[r].pc = "refill"
  /\ sub \in maint[r].queue
  /\ LET lastRefill == sub.last_monthly_refill
         alreadyRefilledThisMonth ==
           lastRefill # NullTime /\ MonthOf(lastRefill) = MonthOf(maint[r].now)
         found == Cardinality(MonthlyTokenRows(sub.plan)) = 1
         row == Batch(sub.user_id, "subscription", sub.id, NullId, NULL,
                      getMonthlyTokenAmount(sub.plan), AddMonth(now), NULL)
         d1 == IF insOk THEN InsertBatch(db, row) ELSE db
         d2 == IF updOk
               THEN UpdateSub(d1, sub.id, [last_monthly_refill |-> maint[r].now])
               ELSE d1
     IN IF alreadyRefilledThisMonth \/ ~found
        THEN /\ insOk /\ updOk /\ db' = db
             /\ maint' = [maint EXCEPT ![r].queue = @ \ {sub}]
        ELSE /\ Len(d2.user_token_batches) <= MaxBatches /\ db' = d2
             /\ maint' = [maint EXCEPT
                            ![r].queue = @ \ {sub},
                            ![r].granted = IF insOk THEN @ \cup {sub.id} ELSE @]
  /\ UNCHANGED <<now, cons, hooks, resp, delivered, processed, lastPass>>

\* The loop is over: the summary response.
MaintSummary(r) ==
  /\ maint[r].pc = "refill"
  /\ maint[r].queue = {}
  /\ maint' = [maint EXCEPT ![r] = IdleMaint]
  /\ resp' = Response("maintenance", r, 200, "summary", 0)
  /\ UNCHANGED <<db, now, cons, hooks, delivered, processed>>

\* The end of a run among other requests.
MaintEnd(r) == MaintSummary(r) /\ UNCHANGED lastPass

\* The end of a run whose pass is noted: its now, the store it left and the
\* subscriptions it inserted a batch for.
MaintEndNoted(r) ==
  /\ MaintSummary(r)
  /\ lastPass' = [at |-> maint[r].now, after |-> db, granted |-> maint[r].granted]

\* A run that starts while no other run is in flight.
MaintBeginAlone(r, M) ==
  /\ \A q \in Runners : maint[q].pc = "idle"
  /\ MaintBegin(r, M)

Tick ==
  /\ now < MaxNow
  /\ now' = now + 1
  /\ UNCHANGED <<db, cons, hooks, maint, resp, delivered, processed, lastPass>>

\* ------------------------------------------------------------------ initial states
UserRow(u) ==
  [email |-> IF u = "u1" THEN "u1@example.com" ELSE "u2@example.com",
   stripe_customer_id |-> NULL, has_active_subscription |-> FALSE,
   has_payment_issue |-> FALSE, is_deleted |-> FALSE]

NoRows == [x \in {} |-> NULL]

\* The store after the migrations, with the two users signed up and u1
\* referred by u2.
EmptyStore ==
  [has_consumed_pending |-> TRUE,
   users |-> [u \in Users |-> UserRow(u)],
   subscriptions |-> NoRows,
   user_token_purchases |-> <<>>,
   user_token_batches |-> <<>>,
   token_event_logs |-> <<>>,
   webhook_events |-> {},
   referrals |-> {[referrer_user_id |-> "u2", referred_user_id |-> "u1",
                   is_rewarded |-> FALSE]}]

NoResponse == Response("none", NULL, 0, "", 0)

InitRest ==
  /\ now = 0
  /\ cons = [c \in Callers |-> IdleCons]
  /\ hooks = [w \in Workers |-> <<>>]
  /\ maint = [r \in Runners |-> IdleMaint]
  /\ resp = NoResponse
  /\ delivered = 0
  /\ processed = {}
  /\ lastPass = [at |-> NullTime, after |-> EmptyStore, granted |-> {}]

\* ------------------------------------------------------------------ the webhook alone
WebhookEvents ==
  {Event("checkout.session.completed", "cs_1", NULL, NULL),
   Event("customer.subscription.created", "sub_1", "price_basic_m", "active"),
   Event("customer.subscription.created", "sub_2", "price_prem_y", "active"),
   Event("customer.subscription.updated", "sub_1", "price_std_m", "active"),
   Event("customer.subscription.deleted", "sub_1", "price_std_m", "canceled"),
   Event("invoice.payment_failed", "in_1", NULL, NULL),
   Event("payment_intent.payment_failed", "pi_1", NULL, NULL),
   Event("charge.failed", "ch_1", NULL, NULL),
   Event("invoice.paid", "in_1", "price_basic_m", NULL),
   Event("invoice.payment_succeeded", "in_1", "price_basic_m", NULL),
   Event("invoice.paid", "in_2", "price_prem_y", NULL),
   Event("payment_intent.succeeded", "pi_2", NULL, NULL)}

InitWebhook == db = EmptyStore /\ InitRest

NextWebhook ==
  \E e \in WebhookEvents :
     \/ BadSignature(e)
     \/ \E F \in Failures :
          \/ CheckoutSessionCompleted(e, F)
          \/ SubscriptionCreated(e, F)
          \/ SubscriptionUpdated(e, F)
          \/ SubscriptionDeleted(e, F)
          \/ InvoicePaymentFailed(e, F)
          \/ PaymentIntentPaymentFailed(e, F)
          \/ ChargeFailed(e, F)
          \/ InvoicePaid(e, F)
          \/ PaymentIntentSucceeded(e, F)

\* Sequential deliveries of gateway events, with failing store operations.
SpecWebhook == InitWebhook /\ [][NextWebhook]_vars

\* ------------------------------------------------------------------ concurrent invoices
\* The events that carry an invoice, and the creation of their subscriptions.
InvoiceEvents ==
  {e \in WebhookEvents :
     e.type \in {"customer.subscription.created", "invoice.paid",
                 "invoice.payment_succeeded"}}

NextInvoice ==
  \/ \E e \in InvoiceEvents, F \in Failures : SubscriptionCreated(e, F)
  \/ \E w \in Workers, e \in InvoiceEvents, F \in Failures : InvoicePaidCheck(w, e, F)
  \/ \E w \in Workers, F \in Failures : InvoicePaidInsert(w, F)

\* Invoice events handled by concurrent invocations of the webhook function.
SpecInvoice == InitWebhook /\ [][NextInvoice]_vars

\* ------------------------------------------------------------------ subscription billing
\* The events of the two subscriptions' life: creation, first invoice, renewal
\* and upgrade invoices, a failed renewal, a second event for a paid invoice,
\* deletion.
BillingEvents ==
  {Event("customer.subscription.created", "sub_1", "price_basic_m", "active"),
   Event("customer.subscription.created", "sub_2", "price_prem_y", "active"),
   Event("invoice.paid", "in_1", "price_basic_m", NULL),
   Event("invoice.paid", "in_4", "price_basic_m", NULL),
   Event("invoice.paid", "in_6", "price_basic_m", NULL),
   Event("invoice.payment_succeeded", "in_4", "price_basic_m", NULL),
   Event("invoice.paid", "in_2", "price_prem_y", NULL),
   Event("invoice.paid", "in_3", "price_prem_y", NULL),
   Event("invoice.paid", "in_5", "price_prem_y", NULL),
   Event("invoice.payment_succeeded", "in_2", "price_prem_y", NULL),
   Event("invoice.payment_failed", "in_3", NULL, NULL),
   Event("invoice.payment_failed", "in_4", NULL, NULL),
   Event("customer.subscription.deleted", "sub_1", "price_basic_m", "canceled"),
   Event("customer.subscription.deleted", "sub_2", "price_prem_y", "canceled")}

NextBilling ==
  \/ \E e \in BillingEvents :
        \/ SubscriptionCreated(e, {})
        \/ InvoicePaid(e, {})
        \/ InvoicePaymentFailed(e, {})
        \/ SubscriptionDeleted(e, {})
  \/ Tick

\* Sequential deliveries of the subscription events, every store operation
\* succeeding, and the clock.
SpecBilling == InitWebhook /\ [][NextBilling]_vars

\* ------------------------------------------------------------------ purchases and referrals
\* Another event of the gateway (a different event id) about the same object.
Again(e) == [e EXCEPT !.status = "second event"]

\* Concurrent requests: the checkout handler of worker w up to the two lookups
\* of handleReferralReward ...
CheckoutPurchased(w, e) ==
  /\ e.type = "checkout.session.completed"
  /\ hooks[w] = <<>>
  /\ delivered + Cardinality({v \in Workers : hooks[v] # <<>>}) < MaxDeliveries
  /\ LET g == recordEventOnce(db, e, {})
         c == CheckoutPurchase(g.db, e, {}, now)
         referred == Session[e.obj].user_id
         k == ReferralCheck(c.db, referred, {})
     IN IF ~g.proceed
        THEN /\ db' = g.db
             /\ resp' = Response("webhook", e, 200, "duplicate event", 0)
             /\ delivered' = delivered + 1
             /\ UNCHANGED <<hooks, processed>>
        ELSE IF c.st = "referral" /\ k.st = "grant"
        THEN /\ db' = c.db
             /\ hooks' = [hooks EXCEPT ![w] =
                            <<[event |-> e,
                               row |-> Batch(k.referrer, "referral", NULL, NullId, NULL,
                                             REFERRAL_TOKEN_AMOUNT, Add365Days(now),
                                             ReferralNote(referred)),
                               reason |-> "referral_reward", initial |-> FALSE]>>]
             /\ UNCHANGED <<resp, delivered, processed>>
        ELSE /\ db' = c.db
             /\ resp' = Answer(e, [db |-> c.db, st |-> IF c.st = "err" THEN "err" ELSE "ok"])
             /\ delivered' = delivered + 1
             /\ processed' = IF c.st = "err" THEN processed ELSE processed \cup {e}
             /\ UNCHANGED hooks
  /\ UNCHANGED <<now, cons, maint, lastPass>>

\* ... and from the insert of the reward batch to its response.
CheckoutReward(w) ==
  /\ hooks[w] # <<>>
  /\ LET c == hooks[w][1]
         r == ReferralGrant(db, c.row.user_id, Session[c.event.obj].user_id, {}, now)
     IN /\ db' = r.db
        /\ resp' = Answer(c.event, r)
        /\ processed' = IF r.st = "ok" THEN processed \cup {c.event} ELSE processed
  /\ hooks' = [hooks EXCEPT ![w] = <<>>]
  /\ delivered' = delivered + 1
  /\ UNCHANGED <<now, cons, maint, lastPass>>

\* The store after the migrations with three users signed up, u1 and u3 both
\* referred by u2.
ReferralStore ==
  [EmptyStore EXCEPT
     !.users = [u \in Users \cup {"u3"} |->
                  IF u = "u3" THEN [UserRow(u) EXCEPT !.email = "u3@example.com"]
                  ELSE UserRow(u)],
     !.referrals = {[referrer_user_id |-> "u2", referred_user_id |-> "u1",
                     is_rewarded |-> FALSE],
                    [referrer_user_id |-> "u2", referred_user_id |-> "u3",
                     is_rewarded |-> FALSE]}]

\* One-time purchases by checkout and by payment intent, each object under
\* two event ids, and the first invoice of u1's subscription.
PurchaseEvents ==
  LET once == {Event("checkout.session.completed", c, NULL, NULL) :
                 c \in {"cs_1", "cs_2", "cs_3"}}
                \cup {Event("payment_intent.succeeded", "pi_2", NULL, NULL)}
  IN once \cup {Again(e) : e \in once}
       \cup {Event("customer.subscription.created", "sub_1", "price_basic_m", "active"),
             Event("invoice.paid", "in_1", "price_basic_m", NULL)}

InitPurchase == db = ReferralStore /\ InitRest

NextPurchase ==
  \/ \E e \in PurchaseEvents :
        \/ CheckoutSessionCompleted(e, {})
        \/ PaymentIntentSucceeded(e, {})
        \/ SubscriptionCreated(e, {})
        \/ InvoicePaid(e, {})
  \/ \E w \in Workers, e \in PurchaseEvents : CheckoutPurchased(w, e)
  \/ \E w \in Workers : CheckoutReward(w)

\* Purchases and first invoices, handled one after the other or by concurrent
\* invocations of the webhook function, every store operation succeeding.
SpecPurchase == InitPurchase /\ [][NextPurchase]_vars

\* ------------------------------------------------------------------ unattributable subscriptions
\* u2 has checked out before as customer cus_2, or has not.
InitUnresolved ==
  /\ \E c \in {NULL, "cus_2"} :
        db = [EmptyStore EXCEPT !.users["u2"].stripe_customer_id = c]
  /\ InitRest

\* The events of sub_3, which carries no metadata, and a checkout of u2 under
\* another customer.
UnresolvedEvents ==
  {Event("customer.subscription.created", "sub_3", "price_basic_m", "active"),
   Event("customer.subscription.updated", "sub_3", "price_std_m", "active"),
   Event("customer.subscription.deleted", "sub_3", "price_basic_m", "canceled"),
   Event("invoice.paid", "in_7", "price_basic_m", NULL),
   Event("invoice.payment_failed", "in_7", NULL, NULL),
   Event("checkout.session.completed", "cs_4", NULL, NULL)}

NextUnresolved ==
  \/ \E e \in UnresolvedEvents :
        \/ SubscriptionCreated(e, {})
        \/ SubscriptionUpdated(e, {})
        \/ SubscriptionDeleted(e, {})
        \/ InvoicePaid(e, {})
        \/ InvoicePaymentFailed(e, {})
        \/ CheckoutSessionCompleted(e, {})
  \/ Tick

\* Sequential deliveries for a subscription whose user is found by the
\* customer id only, every store operation succeeding.
SpecUnresolved == InitUnresolved /\ [][NextUnresolved]_vars

\* ------------------------------------------------------------------ soft-deleted users
\* u1 has been soft-deleted (users.is_deleted set by hand: no function of the
\* repository writes the column).
InitDeleted ==
  /\ db = [EmptyStore EXCEPT !.users["u1"].is_deleted = TRUE]
  /\ InitRest

\* Purchases and subscription events of u1.
DeletedUserEvents ==
  {Event("checkout.session.completed", "cs_1", NULL, NULL),
   Event("checkout.session.completed", "cs_2", NULL, NULL),
   Event("payment_intent.succeeded", "pi_2", NULL, NULL),
   Event("customer.subscription.created", "sub_1", "price_basic_m", "active"),
   Event("invoice.paid", "in_1", "price_basic_m", NULL),
   Event("invoice.paid", "in_4", "price_basic_m", NULL)}

NextDeleted ==
  \/ \E e \in DeletedUserEvents :
        \/ CheckoutSessionCompleted(e, {})
        \/ PaymentIntentSucceeded(e, {})
        \/ SubscriptionCreated(e, {})
        \/ InvoicePaid(e, {})
  \/ Tick

\* Sequential deliveries for a soft-deleted user, every store operation
\* succeeding.
SpecDeleted == InitDeleted /\ [][NextDeleted]_vars

\* ------------------------------------------------------------------ reconciliation
\* What stripe.subscriptions.retrieve finds for a subscription id: its status,
\* or no such subscription (the call throws).
UpstreamStatuses == {"active", "canceled", "missing"}

\* reconciliation/index.ts serve(): the issues it collects, a set here as the
\* rows come in no given order.
ReconciliationIssues(d, upstream) ==
  {s \in DOMAIN d.subscriptions :
     upstream[s] # "active" /\ d.subscriptions[s].is_active}

\* One reconciliation run against the upstream statuses it meets.
Reconcile(upstream) ==
  /\ delivered < MaxDeliveries
  /\ resp' =
       IF \E s \in DOMAIN db.subscriptions : upstream[s] = "missing"
       THEN Response("reconciliation", [upstream |-> upstream, issues |-> {}],
                     500, "Internal Server Error", 0)
       ELSE LET issues == ReconciliationIssues(db, upstream)
            IN Response("reconciliation", [upstream |-> upstream, issues |-> issues],
                        200, IF issues # {} THEN "warning" ELSE "ok", 0)
  /\ delivered' = delivered + 1
  /\ UNCHANGED <<db, now, cons, hooks, maint, processed, lastPass>>

ReconcileEvents ==
  {Event("customer.subscription.created", "sub_1", "price_basic_m", "active"),
   Event("customer.subscription.created", "sub_2", "price_prem_y", "active"),
   Event("customer.subscription.deleted", "sub_1", "price_basic_m", "canceled"),
   Event("customer.subscription.deleted", "sub_2", "price_prem_y", "canceled")}

NextReconcile ==
  \/ \E e \in ReconcileEvents :
        \/ SubscriptionCreated(e, {})
        \/ SubscriptionDeleted(e, {})
  \/ \E upstream \in [DOMAIN db.subscriptions -> UpstreamStatuses] : Reconcile(upstream)
  \/ Tick

\* Subscriptions created and deleted by the webhook, and reconciliation runs
\* over them.
SpecReconcile == InitWebhook /\ [][NextReconcile]_vars

\* ------------------------------------------------------------------ the ledger
\* A yearly subscription row as the first version of the webhook wrote it
\* (plan = plan_option), not yet refilled.
LegacyYearlySub(u, s) ==
  [user_id |-> u, plan |-> "premium", plan_option |-> "premium",
   billing_cycle |-> "yearly", stripe_subscription_id |-> s, is_active |-> TRUE,
   current_period_end |-> AddYear(0), last_monthly_refill |-> NullTime,
   payment_failure_reason |-> NULL]

\* The users that hold batches.
BatchOwners == {"u1"}

\* Batches granted for that subscription, none of them touched yet.
GrantedBatches ==
  LET rows == {[Batch(CHOOSE u \in BatchOwners : TRUE, "subscription", "sub_2", NullId, NULL, a, x, NULL)
                EXCEPT !.expires_at = x] : a \in 1..MaxConsume, x \in 1..MaxNow}
  IN UNION {[1..n -> rows] : n \in 1..(MaxBatches - 1)}

\* Failures of the sweep's own statement.
SweepFailures == {M \in MaintFailures : M \subseteq {"batch.deactivate"}}

InitLedger ==
  /\ \E bs \in GrantedBatches, col \in BOOLEAN :
       db = [EmptyStore EXCEPT
               !.has_consumed_pending = col,
               !.user_token_batches = bs]
  /\ InitRest

NextLedger ==
  \/ \E c \in Callers, u \in Users \cup {NULL} : ConsumeBadRequest(c, u)
  \/ \E c \in Callers, u \in BatchOwners, amt \in 1..MaxConsume :
        \/ ConsumeUndefinedColumn(c, u, amt)
        \/ ConsumeBegin(c, u, amt)
  \/ \E c \in Callers :
        \/ ConsumeStep(c)
        \/ ConsumeReturn(c)
        \/ ConsumeRaise(c)
        \/ ConsumeDeadlock(c)
  \/ \E r \in Runners :
        \/ \E M \in SweepFailures : MaintBegin(r, M)
        \/ MaintEnd(r)
  \/ Tick

\* Concurrent consume calls, maintenance runs and the clock over granted batches.
SpecLedger == InitLedger /\ [][NextLedger]_vars

\* ------------------------------------------------------------------ maintenance alone
InitMaint ==
  /\ \E bs \in GrantedBatches \cup {<<>>}, plan \in {"premium", "price_prem_y"} :
       db = [EmptyStore EXCEPT
               !.users["u1"].has_active_subscription = TRUE,
               !.subscriptions =
                  [s \in {"sub_2"} |-> [LegacyYearlySub("u1", s) EXCEPT !.plan = plan]],
               !.user_token_batches = bs]
  /\ InitRest

NextMaint ==
  \/ \E r \in Runners :
        \/ \E M \in MaintFailures : MaintBeginAlone(r, M)
        \/ \E sub \in maint[r].queue, insOk, updOk \in BOOLEAN :
             MaintRefill(r, sub, insOk, updOk)
        \/ MaintEndNoted(r)
  \/ Tick

\* Maintenance runs one after the other, and the clock.
SpecMaint == InitMaint /\ [][NextMaint]_vars

\* ------------------------------------------------------------------ refills
NextRefill ==
  \/ \E r \in Runners :
        \/ MaintBegin(r, {})
        \/ \E sub \in maint[r].queue : MaintRefill(r, sub, TRUE, TRUE)
        \/ MaintEnd(r)
  \/ Tick

\* Maintenance runs started by the hourly cron job or by hand, which may
\* overlap, every store operation succeeding, and the clock.
SpecRefill == InitMaint /\ [][NextRefill]_vars

\* ------------------------------------------------------------------ upgrade to a yearly plan
\* sub_2 starts on the monthly basic plan and is upgraded once to the yearly
\* premium plan: the gateway sends customer.subscription.updated with the new
\* price and the paid invoice in_5 (billing_reason subscription_update).
UpgradeEvents ==
  {Event("customer.subscription.created", "sub_2", "price_basic_m", "active"),
   Event("invoice.paid", "in_2", "price_basic_m", NULL),
   Event("customer.subscription.updated", "sub_2", "price_prem_y", "active"),
   Event("invoice.paid", "in_5", "price_prem_y", NULL)}

NextUpgrade ==
  \/ \E e \in UpgradeEvents :
        \/ SubscriptionCreated(e, {})
        \/ SubscriptionUpdated(e, {})
        \/ InvoicePaid(e, {})
  \/ \E r \in Runners :
        \/ MaintBegin(r, {})
        \/ \E sub \in maint[r].queue : MaintRefill(r, sub, TRUE, TRUE)
        \/ MaintEnd(r)
  \/ Tick

\* The events of one subscription and its upgrade, maintenance runs and the
\* clock, every store operation succeeding.
SpecUpgrade == InitWebhook /\ [][NextUpgrade]_vars

\* ------------------------------------------------------------------ failed payments
\* The monthly subscription sub_1, its first payment, and the three kinds
\* of failure event about it: invoices whose lookups find the error, find
\* nothing or throw, payment intents and charges with and without an error of
\* their own.
DunningEvents ==
  {Event("customer.subscription.created", "sub_1", "price_basic_m", "active"),
   Event("invoice.paid", "in_1", "price_basic_m", NULL),
   Event("invoice.payment_failed", "in_1", NULL, NULL),
   Event("invoice.payment_failed", "in_4", NULL, NULL),
   Event("invoice.payment_failed", "in_6", NULL, NULL),
   Event("payment_intent.payment_failed", "pi_1", NULL, NULL),
   Event("payment_intent.payment_failed", "pi_3", NULL, NULL),
   Event("charge.failed", "ch_1", NULL, NULL),
   Event("charge.failed", "ch_2", NULL, NULL)}

\* The handler's own lookups at the gateway succeed or throw.
GatewayFailures == {{}, {"stripe"}}

NextDunning ==
  \/ \E e \in DunningEvents :
        \/ SubscriptionCreated(e, {})
        \/ InvoicePaid(e, {})
        \/ InvoicePaymentFailed(e, {})
        \/ \E F \in GatewayFailures :
              \/ PaymentIntentPaymentFailed(e, F)
              \/ ChargeFailed(e, F)
  \/ Tick

\* Sequential deliveries, every store operation succeeding, the gateway's
\* lookups succeeding, yielding nothing or failing.
SpecDunning == InitWebhook /\ [][NextDunning]_vars

\* ================================================================== claims
\* C1: in every reachable state every batch satisfies 0 <= consumed <= amount,
\* under any interleaving of consume calls, maintenance sweeps and the clock.
C1_ConsumedWithinAmount ==
  \A i \in BatchIds(db) :
     /\ 0 <= db.user_token_batches[i].consumed
     /\ db.user_token_batches[i].consumed <= db.user_token_batches[i].amount

\* Caller c's consume_tokens call returns its result in this step.
ConsumeReturns(c) ==
  cons[c].pc = "loop" /\ cons[c].v_remaining <= 0 /\ cons'[c].pc = "idle"

\* C2: concurrent consume calls of one user serialize, the later one seeing the
\* consumed values the earlier one wrote: a call that returns has taken from
\* each batch no more than that batch had left when the call commits.
C2_LaterSeesEarlier ==
  [][\A c \in Callers :
       ConsumeReturns(c) =>
         \A k \in DOMAIN cons[c].writes :
            cons[c].writes[k].take
              <= db.user_token_batches[cons[c].writes[k].id].amount
                   - db.user_token_batches[cons[c].writes[k].id].consumed]_vars

\* A correctly signed event is answered in this step.
WebhookAnswered ==
  delivered' = delivered + 1 /\ resp'.op = "webhook" /\ resp'.status # 400

\* C3: a delivery of an event that was processed before has no effects: it
\* leaves users, subscriptions, purchases, batches and journal as they were,
\* also when the first handling went on without its row in the event log.
C3_ReplayHasNoEffect ==
  [][(/\ WebhookAnswered
      /\ resp'.key \in processed
      /\ resp'.key \notin db.webhook_events) => Ledger(db') = Ledger(db)]_vars

\* C4: for every invoice at most one batch carries its id, however the
\* deliveries of invoice.paid and invoice.payment_succeeded interleave.
C4_OneBatchPerInvoice ==
  \A i, j \in BatchIds(db) :
     (/\ db.user_token_batches[i].invoice_id # NULL
      /\ db.user_token_batches[i].invoice_id = db.user_token_batches[j].invoice_id)
       => i = j

\* C5: an event is skipped as a duplicate only if it was processed before; an
\* event whose handling ended in a 5xx is processed again when redelivered.
C5_DuplicateMeansProcessed ==
  (resp.op = "webhook" /\ resp.body = "duplicate event") => resp.key \in processed

\* C6: a handling that fails is answered 5xx and leaves users, subscriptions,
\* purchases, batches and journal exactly as they were before the event.
C6_FailureAbortsEffect ==
  [][(WebhookAnswered /\ resp'.status = 500) => Ledger(db') = Ledger(db)]_vars

ActiveSubs(d, u) ==
  {s \in DOMAIN d.subscriptions :
     d.subscriptions[s].user_id = u /\ d.subscriptions[s].is_active}

\* C7: in every reachable state each user has at most one subscription row
\* with is_active = true.
C7_OneActiveSubscription ==
  \A u \in Users : Cardinality(ActiveSubs(db, u)) <= 1

PaymentFailureTypes ==
  {"invoice.payment_failed", "payment_intent.payment_failed", "charge.failed"}

\* C8: handling invoice.payment_failed, payment_intent.payment_failed or
\* charge.failed changes no subscription's is_active and no user's
\* has_active_subscription.
C8_FailureKeepsActive ==
  [][(WebhookAnswered /\ resp'.key.type \in PaymentFailureTypes)
       => /\ \A s \in DOMAIN db.subscriptions :
               db'.subscriptions[s].is_active = db.subscriptions[s].is_active
          /\ \A u \in Users :
               db'.users[u].has_active_subscription
                 = db.users[u].has_active_subscription]_vars

\* This step belongs to a maintenance run that repeats the last completed run:
\* same now, and the store as that run left it.
RepeatRun ==
  \/ /\ \A r \in Runners : maint[r].pc = "idle"
     /\ lastPass.at = now
     /\ lastPass.after = db
  \/ \E r \in Runners : maint[r].pc # "idle" /\ maint[r].repeat

\* C9: a second maintenance run with now unchanged and nothing in between
\* creates no additional batch for a subscription the first run has already
\* inserted a batch for, whichever of the first run's writes succeeded.
C9_SecondRunAddsNothing ==
  [][(now' = now /\ RepeatRun)
       => \A i \in BatchIds(db') \ BatchIds(db) :
             db'.user_token_batches[i].subscription_id \notin lastPass.granted]_vars

RECURSIVE SumAvailable(_, _)
SumAvailable(d, B) ==
  IF B = {} THEN 0
  ELSE LET i == CHOOSE x \in B : TRUE
           left == d.user_token_batches[i].amount - d.user_token_batches[i].consumed
       IN (IF left > 0 THEN left ELSE 0) + SumAvailable(d, B \ {i})

\* The user's available tokens at time t: what is left in the active batches
\* that have not expired before t.
BalanceAt(d, u, t) ==
  SumAvailable(d, {i \in BatchIds(d) :
                     /\ d.user_token_batches[i].user_id = u
                     /\ d.user_token_batches[i].is_active
                     /\ d.user_token_batches[i].expires_at >= t})

\* C10: a consume call whose user has fewer tokens available than it asks for
\* fails; a call that returns found at least the amount it asked for.
C10_InsufficientFails ==
  [][\A c \in Callers :
       ConsumeReturns(c)
         => BalanceAt(db, cons[c].user_id, cons[c].started) >= cons[c].amount]_vars

\* Batch j comes before batch i in the order expires_at ASC, id ASC.
FifoBefore(d, j, i) ==
  \/ d.user_token_batches[j].expires_at < d.user_token_batches[i].expires_at
  \/ /\ d.user_token_batches[j].expires_at = d.user_token_batches[i].expires_at
     /\ j < i

\* C11: a consume call that returns gives back the amount asked for and has
\* debited the batches in ascending expires_at order, ties broken by batch id:
\* every active, non-expired batch of the user that comes earlier in that order
\* than a debited batch is fully consumed once the call has committed.
C11_FifoByExpiryThenId ==
  [][\A c \in Callers :
       ConsumeReturns(c) =>
         /\ cons[c].v_consumed = cons[c].amount
         /\ \A k \in DOMAIN cons[c].writes, j \in BatchIds(db') :
              (/\ db'.user_token_batches[j].user_id = cons[c].user_id
               /\ db'.user_token_batches[j].is_active
               /\ db'.user_token_batches[j].expires_at > now
               /\ FifoBefore(db', j, cons[c].writes[k].id))
                => db'.user_token_batches[j].consumed
                     >= db'.user_token_batches[j].amount]_vars

\* C12: a consume call never debits a batch that had expired when the call
\* started (expires_at not later than that now), whether or not the sweep has
\* deactivated the batch.
C12_ExpiredNeverDebited ==
  [][\A c \in Callers :
       ConsumeReturns(c) =>
         \A k \in DOMAIN cons[c].writes :
            db.user_token_batches[cons[c].writes[k].id].expires_at
              > cons[c].started]_vars

RECURSIVE JournalSum(_, _)
\* Sum of delta over the journal entries of batch b.
JournalSum(log, b) ==
  IF log = <<>> THEN 0
  ELSE (IF Head(log).batch_id = b THEN Head(log).delta ELSE 0) + JournalSum(Tail(log), b)

\* C13: in every reachable state, for every active batch the deltas of its
\* journal entries sum to amount - consumed.
C13_JournalMatchesBatches ==
  \A i \in BatchIds(db) :
     db.user_token_batches[i].is_active
       => JournalSum(db.token_event_logs, i)
            = db.user_token_batches[i].amount - db.user_token_batches[i].consumed

\* No run is in flight and the last completed run was at the present now and
\* left the store as it is.
PassJustEnded ==
  /\ \A r \in Runners : maint[r].pc = "idle"
  /\ lastPass.at = now
  /\ lastPass.after = db

\* C14: immediately after a maintenance pass run at time now, every batch has
\* is_active = false or expires_at > now, a batch with expires_at = now included.
C14_SweptAtNow ==
  PassJustEnded
    => \A i \in BatchIds(db) :
          \/ ~db.user_token_batches[i].is_active
          \/ db.user_token_batches[i].expires_at > now

\* The journal entries this step appends.
NewLogs == {db'.token_event_logs[k] :
              k \in (Len(db.token_event_logs) + 1)..Len(db'.token_event_logs)}

\* C15: when a step deactivates a batch with consumed < amount, it appends
\* exactly one journal entry for that batch, with delta = -(amount - consumed)
\* and reason expiry.
C15_ExpiryJournaled ==
  [][\A i \in BatchIds(db) :
       (/\ db.user_token_batches[i].is_active
        /\ ~db'.user_token_batches[i].is_active
        /\ db.user_token_batches[i].consumed < db.user_token_batches[i].amount)
         => /\ Len(db'.token_event_logs) >= Len(db.token_event_logs)
            /\ Cardinality({k \in (Len(db.token_event_logs) + 1)..Len(db'.token_event_logs) :
                              db'.token_event_logs[k].batch_id = i}) = 1
            /\ \E l \in NewLogs :
                 /\ l.batch_id = i
                 /\ l.delta = 0 - (db.user_token_batches[i].amount
                                     - db.user_token_batches[i].consumed)
                 /\ l.reason = "expiry"]_vars

RECURSIVE SumLeft(_, _)
\* SUM(amount - consumed) over the rows B.
SumLeft(d, B) ==
  IF B = {} THEN 0
  ELSE LET i == CHOOSE x \in B : TRUE
       IN (d.user_token_batches[i].amount - d.user_token_batches[i].consumed)
            + SumLeft(d, B \ {i})

\* The view user_token_total: total_available of user u, as the account page
\* shows it (no row for the user: 0).
user_token_total(d, u) ==
  SumLeft(d, {i \in BatchIds(d) :
                /\ d.user_token_batches[i].user_id = u
                /\ d.user_token_batches[i].is_active
                /\ d.user_token_batches[i].amount - d.user_token_batches[i].consumed > 0})

\* C16: at every instant the balance reported for a user is the sum of
\* max(0, amount - consumed) over the user's batches with is_active = true and
\* expires_at > now.
C16_BalanceSkipsExpired ==
  \A u \in Users :
     user_token_total(db, u)
       = SumAvailable(db, {i \in BatchIds(db) :
                             /\ db.user_token_batches[i].user_id = u
                             /\ db.user_token_batches[i].is_active
                             /\ db.user_token_batches[i].expires_at > now})

\* The subscription an invoice event is about, and its user's row.
InvoiceSub(e) == StripeInvoice[e.obj].subscription

\* A paid invoice event with a handled billing reason is answered 200 in this
\* step, and its subscription has a row.
InvoiceHandled ==
  /\ WebhookAnswered
  /\ resp'.status = 200
  /\ resp'.body = "ok"
  /\ resp'.key.type \in {"invoice.paid", "invoice.payment_succeeded"}
  /\ InvoiceSub(resp'.key) \in DOMAIN db.subscriptions

\* C17: handling a paid invoice event for a subscription in payment_issue
\* leaves payment_failure_reason = null and has_payment_issue = false, whatever
\* the billing cycle and the billing reason.
C17_PaidClearsPaymentIssue ==
  [][InvoiceHandled =>
       LET s == InvoiceSub(resp'.key)
           u == db.subscriptions[s].user_id
       IN (/\ db.subscriptions[s].payment_failure_reason # NULL
           /\ db.users[u].has_payment_issue)
            => /\ db'.subscriptions[s].payment_failure_reason = NULL
               /\ ~db'.users[u].has_payment_issue]_vars

\* The batches that carry the id of invoice inv.
BatchesOfInvoice(d, inv) ==
  {i \in BatchIds(d) : d.user_token_batches[i].invoice_id = inv}

C21_OkOnlyOnSuccess ==
  [][(WebhookAnswered /\ resp'.status = 200 /\ resp'.body = "ok") =>
       LET g == recordEventOnce(db, resp'.key, {})
       IN /\ g.proceed
          /\ db' = Handle(g.db, resp'.key, {}, now).db]_vars

PurchaseTypes == {"checkout.session.completed", "payment_intent.succeeded"}

\* C22: a purchase event for a session or payment intent that is already
\* recorded in user_token_purchases is answered 200 and adds no purchase row,
\* no batch and no journal entry.
C22_PurchaseIdempotent ==
  [][(/\ WebhookAnswered
      /\ resp'.key.type \in PurchaseTypes
      /\ PurchaseExists(db, resp'.key.obj))
       => /\ resp'.status = 200
          /\ db'.user_token_purchases = db.user_token_purchases
          /\ db'.user_token_batches = db.user_token_batches
          /\ db'.token_event_logs = db.token_event_logs]_vars

\* The referral batches granted for the pair (referrer, referred).
ReferralBatches(d, referrer, referred) ==
  {i \in BatchIds(d) :
     /\ d.user_token_batches[i].source = "referral"
     /\ d.user_token_batches[i].user_id = referrer
     /\ d.user_token_batches[i].note = ReferralNote(referred)}

\* C23: in every reachable state at most one referral batch has been granted
\* for each (referrer, referred) pair, however the referred user's events are
\* interleaved.
C23_OneRewardPerReferral ==
  \A r \in db.referrals :
     Cardinality(ReferralBatches(db, r.referrer_user_id, r.referred_user_id)) <= 1

\* C24: when a one-time purchase by checkout is handled and answered 200 for a
\* user whose referral is pending, the referral is rewarded afterwards and the
\* referrer holds a referral batch of REFERRAL_TOKEN_AMOUNT for that user,
\* whatever rewards the referrer already holds for other users.
C24_PendingReferralRewarded ==
  [][(/\ WebhookAnswered
      /\ resp'.status = 200
      /\ resp'.body = "ok"
      /\ resp'.key.type = "checkout.session.completed"
      /\ Session[resp'.key.obj].mode = "payment") =>
       \A r \in db.referrals :
          (r.referred_user_id = Session[resp'.key.obj].user_id /\ ~r.is_rewarded)
            => /\ [r EXCEPT !.is_rewarded = TRUE] \in db'.referrals
               /\ \E i \in ReferralBatches(db', r.referrer_user_id, r.referred_user_id) :
                    db'.user_token_batches[i].amount = REFERRAL_TOKEN_AMOUNT]_vars

\* The subscription batches a step inserts.
NewSubscriptionBatches ==
  {i \in BatchIds(db') \ BatchIds(db) : db'.user_token_batches[i].source = "subscription"}

\* C25: every batch with source = subscription that an operation inserts
\* carries an invoice_id, and no other batch carries the same invoice_id.
C25_SubscriptionBatchHasInvoice ==
  [][\A i \in NewSubscriptionBatches :
        /\ db'.user_token_batches[i].invoice_id # NULL
        /\ \A j \in BatchIds(db') \ {i} :
              db'.user_token_batches[j].invoice_id # db'.user_token_batches[i].invoice_id]_vars

\* The subscription an event is about.
EventSub(e) ==
  IF e.type \in {"invoice.paid", "invoice.payment_succeeded", "invoice.payment_failed"}
  THEN StripeInvoice[e.obj].subscription
  ELSE e.obj

SubscriptionEventTypes ==
  {"customer.subscription.created", "customer.subscription.updated",
   "customer.subscription.deleted", "invoice.paid", "invoice.payment_succeeded",
   "invoice.payment_failed"}

\* C26: a subscription or invoice event for which no resolution step finds a
\* user is answered 200 and leaves users, subscriptions, batches and journal
\* as they were.
C26_UnresolvedUserSkipped ==
  [][(/\ WebhookAnswered
      /\ resp'.key.type \in SubscriptionEventTypes
      /\ resolveUserId(db, EventSub(resp'.key), {}) = NULL)
       => /\ resp'.status = 200
          /\ db'.users = db.users
          /\ db'.subscriptions = db.subscriptions
          /\ db'.user_token_batches = db.user_token_batches
          /\ db'.token_event_logs = db.token_event_logs]_vars

\* C27: no step changes or adds a batch of a user whose is_deleted is true,
\* and none appends a journal entry for that user.
C27_DeletedUserFrozen ==
  [][\A u \in DOMAIN db.users :
        db.users[u].is_deleted =>
          /\ \A i \in BatchIds(db') :
                db'.user_token_batches[i].user_id = u =>
                  /\ i \in BatchIds(db)
                  /\ db'.user_token_batches[i] = db.user_token_batches[i]
          /\ \A k \in DOMAIN db'.token_event_logs \ DOMAIN db.token_event_logs :
                db'.token_event_logs[k].user_id # u]_vars

\* A request is refused for its signature in this step.
SignatureRefused ==
  delivered' = delivered + 1 /\ resp'.op = "webhook" /\ resp'.status = 400

\* C28: a request whose signature does not verify is answered 400 and leaves
\* the whole store as it was (no event-log row, no ledger mutation), so that
\* the correctly signed delivery of the same event that follows it is not
\* answered as a duplicate when the event was not logged before.
C28_BadSignatureNoEffect ==
  [][/\ SignatureRefused =>
          /\ resp'.body = "Bad signature"
          /\ db' = db
          /\ processed' = processed
     /\ (/\ resp.status = 400
         /\ resp.key \notin db.webhook_events
         /\ WebhookAnswered
         /\ resp'.key = resp.key)
          => resp'.body # "duplicate event"]_vars

\* A request was refused for its signature after other events were handled,
\* for an event that the event log does not hold.
C28_Witness ==
  /\ resp.status = 400
  /\ resp.key \notin db.webhook_events
  /\ db.webhook_events # {}
  /\ processed # {}

\* A reconciliation run answers in this step.
ReconciliationAnswered ==
  delivered' = delivered + 1 /\ resp'.op = "reconciliation"

\* C29: a reconciliation run writes nothing to the store, and its issue list
\* holds every local subscription that is not found upstream and every one
\* whose is_active disagrees with the upstream status, in either direction.
C29_ReconciliationReportsDrift ==
  [][ReconciliationAnswered =>
       /\ db' = db
       /\ \A s \in DOMAIN db.subscriptions :
            (\/ resp'.key.upstream[s] = "missing"
             \/ db.subscriptions[s].is_active # (resp'.key.upstream[s] = "active"))
              => s \in resp'.key.issues]_vars

\* C30: once customer.subscription.created and the paid first invoice of the
\* same subscription have both been handled and answered 200, in whichever
\* order, the subscription row is present and exactly one batch carries that
\* invoice.
C30_OrderIndependent ==
  \A c \in processed, i \in processed :
     (/\ c.type = "customer.subscription.created"
      /\ i.type = "invoice.paid"
      /\ StripeInvoice[i.obj].billing_reason = "subscription_create"
      /\ StripeInvoice[i.obj].subscription = c.obj)
       => /\ SubExists(db, c.obj)
          /\ Cardinality(BatchesOfInvoice(db, i.obj)) = 1

\* C31: in every state a user's has_active_subscription is true exactly when
\* the user has a subscriptions row with is_active = true.
C31_FlagMatchesSubscriptions ==
  \A u \in DOMAIN db.users :
     db.users[u].has_active_subscription <=> (ActiveSubs(db, u) # {})

\* The subscriptions for which customer.subscription.deleted has been handled.
DeletedSubs ==
  {e.obj : e \in {p \in processed : p.type = "customer.subscription.deleted"}}

\* C32: once customer.subscription.deleted has been handled for a subscription,
\* no later step sets that subscription's is_active, or its user's
\* has_active_subscription, from false to true through an event of that
\* subscription.
C32_EndedIsAbsorbing ==
  [][\A s \in DeletedSubs :
        /\ (SubExists(db, s) /\ ~db.subscriptions[s].is_active)
             => ~db'.subscriptions[s].is_active
        /\ (/\ WebhookAnswered
            /\ resp'.key.type # "checkout.session.completed"
            /\ EventSub(resp'.key) = s
            /\ SubExists(db, s))
             => LET u == db.subscriptions[s].user_id
                IN ~db.users[u].has_active_subscription
                     => ~db'.users[u].has_active_subscription]_vars

\* The size of a refill by the catalog: monthly_refill_tokens of the yearly
\* price of the subscription's plan_option, or a twelfth of its tokens.
RefillSize(d, s) ==
  LET p == CHOOSE q \in PriceIds :
             /\ subscription_prices[q].plan_option = d.subscriptions[s].plan_option
             /\ subscription_prices[q].plan_type = "yearly"
  IN IF subscription_prices[p].monthly_refill_tokens # 0
     THEN subscription_prices[p].monthly_refill_tokens
     ELSE subscription_prices[p].tokens \div 12

\* Runner r handles subscription row sub in this step, no other run being in
\* flight and the row being as the run read it.
RefillStep(r, sub) ==
  /\ maint[r].pc = "refill"
  /\ sub \in maint[r].queue
  /\ maint'[r].pc = "refill"
  /\ maint'[r].queue = maint[r].queue \ {sub}
  /\ \A q \in Runners \ {r} : maint[q].pc = "idle"
  /\ db.subscriptions[sub.id].last_monthly_refill = sub.last_monthly_refill
  /\ db.subscriptions[sub.id].is_active

\* C36: in a maintenance pass an active yearly subscription whose
\* last_monthly_refill is null or in another month gets exactly one new
\* subscription batch of the catalog's refill size expiring a month from now,
\* and its last_monthly_refill becomes the pass's now; one already refilled
\* this month gets nothing.
C36_RefillPerPass ==
  [][\A r \in Runners : \A sub \in maint[r].queue :
        RefillStep(r, sub) =>
          LET last == sub.last_monthly_refill
              due == last = NullTime \/ MonthOf(last) # MonthOf(maint[r].now)
              n == Len(db.user_token_batches)
          IN IF due
             THEN /\ Len(db'.user_token_batches) = n + 1
                  /\ SubSeq(db'.user_token_batches, 1, n) = db.user_token_batches
                  /\ db'.user_token_batches[n + 1].source = "subscription"
                  /\ db'.user_token_batches[n + 1].user_id = sub.user_id
                  /\ db'.user_token_batches[n + 1].amount = RefillSize(db, sub.id)
                  /\ db'.user_token_batches[n + 1].expires_at = AddMonth(now)
                  /\ db'.subscriptions[sub.id].last_monthly_refill = maint[r].now
             ELSE db'.user_token_batches = db.user_token_batches]_vars

\* The batches a maintenance run inserted for subscription s: refill batches
\* carry no invoice and no note.
RefillBatches(d, s) ==
  {i \in BatchIds(d) :
     /\ d.user_token_batches[i].source = "subscription"
     /\ d.user_token_batches[i].subscription_id = s
     /\ d.user_token_batches[i].invoice_id = NULL
     /\ d.user_token_batches[i].note = NULL}

\* C35: no step of a maintenance run, overlapping with another or not, inserts
\* a refill batch for a yearly subscription that was already refilled in the
\* current calendar month.
C35_OverlappingRunsRefillOnce ==
  [][\A s \in DOMAIN db.subscriptions :
        (/\ db.subscriptions[s].last_monthly_refill # NullTime
         /\ MonthOf(db.subscriptions[s].last_monthly_refill) = MonthOf(now))
          => RefillBatches(db', s) = RefillBatches(db, s)]_vars

\* C37: in a maintenance pass the refill of one subscription is all or
\* nothing: the step that handles a subscription inserts its refill batch
\* exactly when it also moves the subscription's last_monthly_refill.
C37_RefillAtomic ==
  [][\A r \in Runners : \A sub \in maint[r].queue :
        RefillStep(r, sub) =>
          ((Len(db'.user_token_batches) # Len(db.user_token_batches))
             <=> (db'.subscriptions[sub.id].last_monthly_refill
                    # db.subscriptions[sub.id].last_monthly_refill))]_vars

\* The monthly grants of a yearly subscription: the dispatcher's first-month
\* and upgrade grants and the maintenance refills, all expiring a month after
\* they were granted.
YearlyGrants(d, s) ==
  {i \in BatchIds(d) :
     /\ d.user_token_batches[i].source = "subscription"
     /\ d.user_token_batches[i].subscription_id = s
     /\ d.user_token_batches[i].note \in {"first-month-yearly", "plan-upgrade", NULL}}

GrantMonth(b) == MonthOf(b.expires_at - MonthLen)

\* C33: in every state a yearly subscription holds at most one monthly grant
\* per calendar month, the dispatcher's and the maintenance worker's counted
\* together.
C33_OneYearlyGrantPerMonth ==
  \A s \in DOMAIN db.subscriptions :
     db.subscriptions[s].billing_cycle = "yearly" =>
       \A i, j \in YearlyGrants(db, s) :
          GrantMonth(db.user_token_batches[i]) = GrantMonth(db.user_token_batches[j])
            => i = j

\* The batches credited for the upgrade of subscription s: the one of
\* customer.subscription.updated and the ones of its subscription_update
\* invoices.
UpgradeBatches(d, s) ==
  {i \in BatchIds(d) :
     /\ d.user_token_batches[i].subscription_id = s
     /\ \/ d.user_token_batches[i].note = "plan-upgrade"
        \/ /\ d.user_token_batches[i].invoice_id \in InvoiceIds
           /\ StripeInvoice[d.user_token_batches[i].invoice_id].billing_reason
                = "subscription_update"}

\* C34: in every state the one plan change of a subscription has credited at
\* most one upgrade batch, whichever of its two events was handled first.
C34_UpgradeCreditedOnce ==
  \A s \in DOMAIN db.subscriptions : Cardinality(UpgradeBatches(db, s)) <= 1

\* The subscription a failure event is about.
FailedSub(e) ==
  IF e.type = "invoice.payment_failed" THEN StripeInvoice[e.obj].subscription
  ELSE IF e.type = "payment_intent.payment_failed"
    THEN StripeInvoice[PaymentIntent[e.obj].invoice].subscription
  ELSE StripeInvoice[Charge[e.obj].invoice].subscription

\* C38: when invoice.payment_failed, payment_intent.payment_failed or
\* charge.failed has been handled for a subscription that has a local row,
\* that row's payment_failure_reason is not null and its user's
\* has_payment_issue is true, whether the gateway's lookups about the failure
\* find the error, find nothing or fail.
C38_FailureAlwaysRecorded ==
  [][(/\ WebhookAnswered
      /\ resp'.status = 200
      /\ resp'.body = "ok"
      /\ resp'.key.type \in PaymentFailureTypes
      /\ SubExists(db, FailedSub(resp'.key)))
     => /\ SubExists(db', FailedSub(resp'.key))
        /\ db'.subscriptions[FailedSub(resp'.key)].payment_failure_reason # NULL
        /\ db'.users[db'.subscriptions[FailedSub(resp'.key)].user_id].has_payment_issue]_vars

\* invoice.payment_failed was handled for sub_1 with every lookup of the chain
\* failing, and the row carries the text of the chain's last line.
C38_Witness ==
  /\ resp.op = "webhook"
  /\ resp.status = 200
  /\ resp.body = "ok"
  /\ resp.key.type = "invoice.payment_failed"
  /\ StripeInvoice[resp.key.obj].lookups = "fail"
  /\ SubExists(db, "sub_1")
  /\ db.subscriptions["sub_1"].payment_failure_reason
       = "unknown: status=open, attempt_count=0, next_attempt=null"
  /\ db.users[db.subscriptions["sub_1"].user_id].has_payment_issue

\* What a handling that took the store from d0 to d1 added to the ledger:
\* the number of purchase rows, the batches and the journal entries without
\* their ids and notes, and the referrals as they are afterwards.
PurchaseEffects(d0, d1) ==
  [purchases |-> Len(d1.user_token_purchases) - Len(d0.user_token_purchases),
   batches |-> [k \in 1..(Len(d1.user_token_batches) - Len(d0.user_token_batches)) |->
                  LET b == d1.user_token_batches[Len(d0.user_token_batches) + k]
                  IN [user_id |-> b.user_id, source |-> b.source,
                      amount |-> b.amount, expires_at |-> b.expires_at]],
   journal |-> [k \in 1..(Len(d1.token_event_logs) - Len(d0.token_event_logs)) |->
                  LET l == d1.token_event_logs[Len(d0.token_event_logs) + k]
                  IN [user_id |-> l.user_id, delta |-> l.delta, reason |-> l.reason]],
   referrals |-> d1.referrals]

\* The payment-mode checkout sessions of the user and plan of payment intent p.
SessionsLike(p) ==
  {c \in SessionIds : /\ Session[c].mode = "payment"
                      /\ Session[c].user_id = PaymentIntent[p].user_id
                      /\ Session[c].plan_option = PaymentIntent[p].plan_option}

\* C39: a payment_intent.succeeded that records a one-time purchase has the
\* ledger effects that checkout.session.completed in payment mode has for the
\* same user and plan in the same state: one purchase row, one purchase batch
\* of the catalog amount expiring in 60 days, one positive journal entry for
\* it, and the referral reward if one is pending.
C39_PaymentIntentLikeCheckout ==
  [][(/\ WebhookAnswered
      /\ resp'.status = 200
      /\ resp'.body = "ok"
      /\ resp'.key.type = "payment_intent.succeeded"
      /\ ~PurchaseExists(db, resp'.key.obj))
     => \A c \in SessionsLike(resp'.key.obj) :
           ~PurchaseExists(db, c)
             => PurchaseEffects(db, db')
                  = PurchaseEffects(db, HandleCheckout(db,
                       Event("checkout.session.completed", c, NULL, NULL), {}, now).db)]_vars

====
